---- MODULE Spec2Model ----
(***************************************************************************)
(* Model of dissemin's deposit protocol: the shared wrapper                *)
(* RepositoryProtocol.submit_deposit_wrapper (deposit/protocol.py) and the  *)
(* OSF backend OSFProtocol.submit_deposit (deposit/osf/protocol.py).        *)
(*                                                                         *)
(* A Python string is a sequence of tokens, so that concatenation is \o    *)
(* and "ends with" / "contains" are real questions.  Python's None is the  *)
(* distinguished value None below, different from the empty string <<>>.   *)
(* Translated messages (ugettext) are named by their message id.           *)
(***************************************************************************)
EXTENDS Integers, Sequences, FiniteSets, TLC

\* ------------------------------------------------------------------ bounds
\* Longest author list of a paper.
MaxAuthors == 2
\* Number of deposit attempts made on one protocol instance.
MaxAttempts == 2
MaxTagLen == 4

\* ------------------------------------------------------------------ values
None == <<"#None">>

\* Python truthiness of a str-or-None value (`if result.splash_url:`).
Truthy(v) == v # None /\ v # <<>>

\* unicode(x) of a str-or-None value.
unicode(v) == IF v = None THEN <<"None">> ELSE v

\* '%d' % n for the integers the program formats.
FormatD(n) ==
    CASE n = 200 -> <<"200">>
      [] n = 201 -> <<"201">>
      [] n = 400 -> <<"400">>
      [] n = 1   -> <<"1">>
      [] n = 2   -> <<"2">>
      [] n = 7   -> <<"7">>
      [] OTHER   -> <<"?">>

IsPrefix(s, t) == Len(s) <= Len(t) /\ SubSeq(t, 1, Len(s)) = s
IsSuffix(s, t) == Len(s) <= Len(t) /\ SubSeq(t, Len(t) - Len(s) + 1, Len(t)) = s
Contains(t, s) == \E i \in 0..(Len(t) - Len(s)) : SubSeq(t, i + 1, i + Len(s)) = s

\* The two endpoints the backend tells apart, and the two ways of having none.
SandboxApi == <<"https://test-api.osf.io/">>
ProductionApi == <<"https://api.osf.io/">>
Endpoints == {None, <<>>, SandboxApi, ProductionApi}
ApiKeys == {None, <<"tok">>}

\* Status codes a remote call can answer with.
StatusCodes == {200, 201, 400}
NodeIds == {<<"nd1">>, <<"nd2">>}
PreprintIds == {<<"pp1">>, <<"pp2">>}
FilePaths == {<<"/", "f1">>}
UploadLinks == {<<"https://files.osf.io/up">>}

Users ==
    [u1 |-> [name |-> <<"alice">>, first_name |-> <<"Al">>, last_name |-> <<"Ice">>],
     u2 |-> [name |-> <<"bob">>, first_name |-> <<>>, last_name |-> <<>>]]
UserIds == {"u1", "u2"}

Authors == <<[first |-> <<"A">>, last |-> <<"One">>], [first |-> <<"B">>, last |-> <<"Two">>],
             [first |-> <<"C">>, last |-> <<"Three">>], [first |-> <<"D">>, last |-> <<"Four">>]>>

\* paper.json()['date'], an ISO date, character by character.
PaperDate == <<"2", "0", "1", "6", "-", "0", "5", "-", "1", "2">>

\* The "no license" ids of the two endpoints (lines 48 and 50), and the ids
\* the form's license field can hold.
SandboxNoLicense == <<"58fd62fcda3e2400012ca5cc">>
ProductionNoLicense == <<"563c1cf88c5e4a3877f9e965">>
LicenseIds == {SandboxNoLicense, ProductionNoLicense, <<"563c1cf88c5e4a3877f9e96a">>}

\* paper.json()['records'], each record by its 'doi' entry: None for a record
\* without one.
RecordLists ==
    {<<>>, <<None>>, <<None, <<"10.1/a">>>>, <<<<"10.1/a">>, <<"10.1/b">>>>,
     <<<<>>, <<"10.1/b">>>>}

\* Messages of the exceptions a backend or a collaborator raises.
GENERIC_MESSAGE == <<"Failed to connect to the repository. Please try again later.">>
StubMessages == {<<"X">>, <<"quota exceeded">>}
OtherExceptions ==
    {[type |-> <<"<class 'requests.exceptions.ConnectionError'>">>, msg |-> <<"connection refused">>],
     [type |-> <<"<type 'exceptions.KeyError'>">>, msg |-> <<"'data'">>]}
NoException == [type |-> <<>>, msg |-> <<>>]
DepositError(m) == [type |-> <<"DepositError">>, msg |-> m]
IsDepositError(e) == e.type = <<"DepositError">>

\* ------------------------------------------------------------ DepositResult
\* DepositResult.__init__ with a status of the enumeration.
DepositResult(identifier, splash_url, pdf_url, logs, status, message) ==
    [identifier |-> identifier, splash_url |-> splash_url, pdf_url |-> pdf_url,
     logs |-> logs, status |-> status, message |-> message, oairecord |-> None]

\* What `result` and `returned` hold while there is no such object.
NoResult == DepositResult(None, None, None, None, "", None)

\* ------------------------------------------------------------------ logging
\* A log that puts the new line first.
LogPrepend(buf, line) == line \o <<"\n">> \o buf

\* RepositoryProtocol.log: self._logs += line + '\n'
Log(buf, line) == buf \o line \o <<"\n">>

\* A log_request that only logs and never raises.
LogRequestNeverRaises(r, expected_status_code) == FALSE

\* RepositoryProtocol.log_request raises DepositError(error_msg) in this case.
LogRequestRaises(r, expected_status_code) == r.status_code # expected_status_code

\* A log_request that logs the response body whatever the status.
LogRequestAlwaysBody(buf, r, expected_status_code) ==
    Log(Log(Log(Log(Log(buf, <<"--- Request to ">> \o r.url \o <<"\n">>),
                    <<"Status code: ">> \o FormatD(r.status_code) \o <<" (expected ">>
                        \o FormatD(expected_status_code) \o <<")", "\n">>),
                <<"Server response:">>), r.text), <<>>)

\* The buffer after RepositoryProtocol.log_request(r, expected_status_code, _).
LogRequest(buf, r, expected_status_code) ==
    LET b1 == Log(buf, <<"--- Request to ">> \o r.url \o <<"\n">>)
        b2 == Log(b1, <<"Status code: ">> \o FormatD(r.status_code) \o <<" (expected ">>
                        \o FormatD(expected_status_code) \o <<")", "\n">>)
    IN  IF r.status_code # expected_status_code
        THEN Log(Log(Log(b2, <<"Server response:">>), r.text), <<>>)
        ELSE b2

\* -------------------------------------------------------------------- state
VARIABLES
    backend,      \* class of the protocol instance: "Base", "Stub" or "OSF"
    repository,   \* self.repository: [endpoint, api_key, id, name]
    paper,        \* the paper handed to init_deposit: [pk, authors]
    user,         \* the user handed to init_deposit (a key of Users)
    self_paper,   \* self.paper: "None" or "paper" (the paper above)
    self_user,    \* self.user: "None" or the user
    _logs,        \* self._logs: None or the buffer
    node_id,      \* self.node_id (OSF), None while unset
    pf_path,      \* local pf_path of OSFProtocol.submit_deposit
    preprint_id,  \* local preprint_id of OSFProtocol.submit_deposit
    contrib_i,    \* number of authors add_contributors has posted
    license_id,   \* self.license_id (OSF), None while unset
    pub_date,     \* self.pub_date (OSF), None while unset
    records,      \* local records of OSFProtocol.submit_deposit: the DOI of each, or None
    pc,           \* position of the caller / wrapper / submit_deposit
    exc,          \* the exception being raised, NoException if none
    payload,      \* notification_payload of the running wrapper call
    result,       \* the DepositResult object submit_deposit created
    returned,     \* what submit_deposit_wrapper returned
    http,         \* remote calls issued in this wrapper call, in order
    callbacks,    \* payloads DEPOSIT_NOTIFICATION_CALLBACK was called with
    oai_calls,    \* records paper.add_oairecord was called with
    oai_returned, \* what paper.add_oairecord returned, None if it did not
    sd_exit,      \* how submit_deposit ended in this call: "", "returned", "raised"
    sd_exc,       \* the exception submit_deposit raised
    sd_logs,      \* self._logs when submit_deposit ended
    attempts,     \* init_deposit calls so far
    fn,           \* the function a single-function specification calls, "" in Spec
    arg,          \* its arguments
    out           \* its outcome

vars == <<backend, repository, paper, user, self_paper, self_user, _logs, node_id,
          pf_path, preprint_id, contrib_i, license_id, pub_date, records, pc, exc, payload, result, returned, http,
          callbacks, oai_calls, oai_returned, sd_exit, sd_exc, sd_logs, attempts,
          fn, arg, out>>

\* What no action of Spec changes: the configuration, and the variables of the
\* single-function specifications.
config == <<backend, repository, paper, user, fn, arg, out>>
config_but_out == <<backend, repository, paper, user, fn, arg>>
osf_locals == <<node_id, pf_path, preprint_id, contrib_i>>
osf_form == <<license_id, pub_date, records>>
history == <<http, callbacks, oai_calls, oai_returned, sd_exit, sd_exc, sd_logs>>

\* OSFProtocol.__init__: self.api_url = repository.endpoint
api_url == repository.endpoint

NoPayload == [name |-> <<>>, repo |-> <<>>, paperurl |-> <<>>]

\* RepositoryProtocol.__init__ / OSFProtocol.__init__ on a configured repository.
\* Only the OSF backend reads the endpoint, the credential and the authors, so
\* they vary for it alone.
Init ==
    /\ backend \in {"Base", "Stub", "OSF"}
    /\ repository \in [endpoint : Endpoints, api_key : ApiKeys, id : {1, 2},
                       name : {<<"OSF">>}]
    /\ \E n \in 0..MaxAuthors : paper = [pk |-> 7, authors |-> SubSeq(Authors, 1, n), date |-> PaperDate]
    /\ backend # "OSF" =>
         /\ repository.endpoint = ProductionApi
         /\ repository.api_key # None
         /\ paper.authors = <<>>
    /\ user \in UserIds
    /\ self_paper = "None"
    /\ self_user = "None"
    /\ _logs = None
    /\ node_id = None /\ pf_path = None /\ preprint_id = None /\ contrib_i = 0
    /\ license_id = None /\ pub_date = None /\ records = <<>>
    /\ pc = "idle"
    /\ exc = NoException
    /\ payload = NoPayload
    /\ result = NoResult /\ returned = NoResult
    /\ http = <<>> /\ callbacks = <<>> /\ oai_calls = <<>> /\ oai_returned = None
    /\ sd_exit = "" /\ sd_exc = NoException /\ sd_logs = None
    /\ attempts = 0
    /\ fn = "" /\ arg = <<>> /\ out = <<>>

\* RepositoryProtocol.init_deposit (OSFProtocol.init_deposit only delegates).
\* The caller starts an attempt on a fresh instance, or after the previous
\* wrapper call ended.
InitDeposit ==
    /\ pc \in {"idle", "returned", "escaped"}
    /\ attempts < MaxAttempts
    /\ attempts' = attempts + 1
    /\ self_paper' = "paper"
    /\ self_user' = user
    /\ _logs' = <<>>
    /\ pc' = "idle"
    /\ exc' = NoException
    /\ UNCHANGED <<config, osf_form, osf_locals, payload, result, returned, history>>

\* How the lookup and call of `reverse` on line 155 can end.  protocol.py never
\* imports the name: it is bound only if the hosting process binds it in the
\* module, and evaluating it raises NameError otherwise.
ReverseOutcomes == {"url", "NameError", "NoReverseMatch"}

\* reverse('paper', args=[pk]) when it resolves: the route named 'paper' of
\* papers/urls.py, ^paper/(?P<pk>\d+)/$.
reverse_paper(pk) == <<"/paper/">> \o FormatD(pk) \o <<"/">>

\* submit_deposit_wrapper, lines 149-156: the notification payload, computed
\* before the try block.
WrapperEnter ==
    /\ pc = "idle"
    /\ http' = <<>> /\ callbacks' = <<>> /\ oai_calls' = <<>> /\ oai_returned' = None
    /\ sd_exit' = "" /\ sd_exc' = NoException /\ sd_logs' = None
    /\ result' = NoResult /\ returned' = NoResult
    /\ IF self_user = "None"
       THEN \* self.user.name on None
            /\ exc' = [type |-> <<"<type 'exceptions.AttributeError'>">>,
                       msg |-> <<"'NoneType' object has no attribute 'name'">>]
            /\ pc' = "escaped"
            /\ payload' = NoPayload
       ELSE \E rev \in ReverseOutcomes :
            LET u == Users[self_user]
                name == IF Truthy(u.first_name) /\ Truthy(u.last_name)
                        THEN u.first_name \o <<" ">> \o u.last_name
                        ELSE u.name
            IN  IF rev = "url"
                THEN /\ payload' = [name |-> name, repo |-> repository.name,
                                    paperurl |-> reverse_paper(paper.pk)]
                     /\ pc' = "submit"
                     /\ exc' = NoException
                ELSE /\ payload' = NoPayload
                     /\ exc' = [type |-> <<rev>>, msg |-> <<"reverse">>]
                     /\ pc' = "escaped"
    /\ UNCHANGED <<config, osf_form, self_paper, self_user, _logs, osf_locals, attempts>>

\* ------------------------------------------------- leaving submit_deposit
\* submit_deposit raises e with the buffer at buf: control unwinds to the
\* except clauses of the wrapper.
SdRaise(e, buf) ==
    /\ exc' = e
    /\ pc' = "raised"
    /\ sd_exit' = "raised"
    /\ sd_exc' = e
    /\ sd_logs' = buf
    /\ _logs' = buf

\* submit_deposit returns r with the buffer at buf.
SdReturn(r, buf) ==
    /\ result' = r
    /\ pc' = "attach"
    /\ sd_exit' = "returned"
    /\ sd_logs' = buf
    /\ _logs' = buf
    /\ UNCHANGED <<exc, sd_exc>>

\* RepositoryProtocol.submit_deposit, line 125: NotImplemented is not an
\* exception class, calling it raises TypeError.
BaseSubmitDeposit ==
    /\ pc = "submit" /\ backend = "Base"
    /\ SdRaise([type |-> <<"<type 'exceptions.TypeError'>">>,
                msg |-> <<"'NotImplementedType' object is not callable">>], _logs)
    /\ UNCHANGED <<config, osf_form, self_paper, self_user, osf_locals, payload, result, returned,
                   http, callbacks, oai_calls, oai_returned, attempts>>

\* What a backend's submit_deposit may do by its contract (lines 115-124): log,
\* then return a DepositResult, raise DepositError, or fail in another way.
StubResults ==
    {DepositResult(i, s, p, None, st, None) :
        i \in {None, <<"id42">>}, s \in {None, <<>>, <<"https://repo/42">>},
        p \in {None, <<"https://repo/42.pdf">>}, st \in {"published", "pending"}}

StubSubmitDeposit ==
    /\ pc = "submit" /\ backend = "Stub"
    /\ \E line \in {<<>>, <<"stub: sending">>} :
         LET buf == IF line = <<>> THEN _logs ELSE Log(_logs, line)
         IN  \/ \E r \in StubResults : SdReturn(r, buf)
             \/ \E m \in StubMessages : SdRaise(DepositError(m), buf) /\ UNCHANGED result
             \/ \E e \in OtherExceptions : SdRaise(e, buf) /\ UNCHANGED result
    /\ UNCHANGED <<config, osf_form, self_paper, self_user, osf_locals, payload, returned,
                   http, callbacks, oai_calls, oai_returned, attempts>>

\* ------------------------------------------------- OSFProtocol.submit_deposit
\* A precondition written as `self.api_url is None`: an empty endpoint passes.
MissingEndpointNoneOnly == api_url = None

\* `not self.api_url` (line 333) and `self.repository.api_key is None` (line 336).
MissingEndpoint == ~Truthy(api_url)
MissingApiKey == repository.api_key = None

ResponseText == <<"{response body}">>
ConnectionError ==
    [type |-> <<"<class 'requests.exceptions.ConnectionError'>">>, msg |-> <<"connection refused">>]
BadBody == [type |-> <<"<type 'exceptions.KeyError'>">>, msg |-> <<"'data'">>]
IOError == [type |-> <<"<type 'exceptions.IOError'>">>, msg |-> <<"No such file">>]

\* One remote call as the history records it; status 0: the call raised
\* instead of answering.  answer is the entry the code reads in the JSON of
\* the response, None when it reads none or finds none.
Request(method, url, body, expected, status) ==
    [method |-> method, url |-> url, body |-> body, expected |-> expected, status |-> status,
     answer |-> None]

\* The call, answered with the entry the code reads in the response.
Answered(req, entry) == [req EXCEPT !.answer = entry]

\* A slice that keeps the whole path.
WholePath(path) == path

\* Line 378: ['path'][1:]
WithoutFirst(path) == Tail(path)

\* The response object log_request is given.
Response(url, st) == [url |-> url, status_code |-> st, text |-> ResponseText]

\* The call does not end well: requests raises (st = 0) or log_request does.
CallFails(url, st, expected) == st = 0 \/ LogRequestRaises(Response(url, st), expected)

\* A remote call that does not end well: requests raises (st = 0), or
\* log_request finds a status other than the expected one and raises
\* DepositError(error_msg).
RemoteFails(method, url, body, expected, error_msg, buf, st) ==
    /\ http' = Append(http, Request(method, url, body, expected, st))
    /\ IF st = 0
       THEN SdRaise(ConnectionError, buf)
       ELSE SdRaise(DepositError(error_msg),
                    LogRequest(buf, Response(url, st), expected))


\* translate_author: "first last".
translate_author(a) == a.first \o <<" ">> \o a.last

\* Lines 388-400: the public URLs.
preprint_public_url(pid) ==
    IF api_url = SandboxApi THEN <<"https://test.osf.io/">> \o pid ELSE <<"https://osf.io">> \o pid
preprint_public_pdf(pid) == preprint_public_url(pid) \o <<"/download">>
project_public_url(nid) ==
    IF api_url = SandboxApi THEN <<"https://test.osf.io/">> \o nid ELSE <<"https://osf.io/">> \o nid

\* A loop that posts the first author only.
AfterContributorFirstOnly(i) == IF i < 1 /\ i < Len(paper.authors) THEN "contributors" ELSE "license"

\* Where submit_deposit goes once i authors have been posted (lines 176, 382).
AfterContributor(i) == IF i < Len(paper.authors) THEN "contributors" ELSE "license"

\* Line 345: paper['date'][:-6]
DropLast6(date) == SubSeq(date, 1, Len(date) - 6)

\* OSFProtocol.__init__, lines 47-50.
no_license_id == IF api_url = SandboxApi THEN SandboxNoLicense ELSE ProductionNoLicense

\* get_key_data('doi', records): the first truthy 'doi', else None.
get_key_data(recs) ==
    LET having == {i \in 1..Len(recs) : Truthy(recs[i])}
    IN  IF having = {} THEN None
        ELSE recs[CHOOSE i \in having : \A j \in having : i <= j]

\* [self.translate_author(author) for author in authors]
authors_list == [i \in 1..Len(paper.authors) |-> translate_author(paper.authors[i])]

\* A Python dict of a license block: its keys and, when present, its values.
EmptyBlock == [keys |-> {}, year |-> None, copyright_holders |-> <<>>]
FilledBlock ==
    [keys |-> {"year", "copyright_holders"}, year |-> pub_date,
     copyright_holders |-> authors_list]

\* A node license block filled for every license.
node_license_always == FilledBlock

\* create_license, lines 207-217: the node_license block.
node_license == IF license_id = no_license_id THEN FilledBlock ELSE EmptyBlock

\* update_preprint_license, lines 309-319: the license_record block.
license_record == IF license_id = no_license_id THEN FilledBlock ELSE EmptyBlock

\* create_license, lines 191-217: license_structure.
license_structure ==
    [type |-> "nodes", id |-> node_id, block_name |-> "node_license",
     block |-> node_license, license |-> license_id]

\* update_preprint_license, lines 293-319: updated_preprint_struc.
updated_preprint_struc ==
    [type |-> "nodes", id |-> preprint_id, block_name |-> "license_record",
     block |-> license_record, license |-> license_id]

\* create_preprint, lines 244-270: min_preprint_structure.
min_preprint_structure ==
    [doi |-> get_key_data(records), node |-> node_id, primary_file |-> pf_path,
     provider |-> <<"osf">>]

\* Lines 333-354: the preconditions, the primary data, the empty result.
OsfStart ==
    /\ pc = "submit" /\ backend = "OSF"
    /\ IF MissingEndpoint
       THEN SdRaise(DepositError(<<"No Repository endpoint provided.">>), _logs)
            /\ UNCHANGED <<result, osf_form>>
       ELSE IF MissingApiKey
       THEN SdRaise(DepositError(<<"No OSF token provided.">>), _logs)
            /\ UNCHANGED result
            /\ UNCHANGED osf_form
       ELSE /\ \E lic \in LicenseIds : license_id' = lic
            /\ \E recs \in RecordLists : records' = recs
            /\ pub_date' = DropLast6(paper.date)
            /\ result' = DepositResult(None, None, None, None, "published", None)
            /\ pc' = "create_node"
            /\ UNCHANGED <<exc, sd_exit, sd_exc, sd_logs, _logs>>
    /\ UNCHANGED <<config, self_paper, self_user, osf_locals, payload, returned,
                   http, callbacks, oai_calls, oai_returned, attempts>>

\* create_node (lines 123-154): POST v2/nodes/, expect 201, keep the node id.
CreateNode ==
    /\ pc = "create_node"
    /\ LET buf == Log(Log(Log(_logs, <<"### Creating the metadata">>),
                          <<"json(min_node_structure)">>), <<"json(authors)">>)
           url == api_url \o <<"v2/nodes/">>
       IN  \E st \in StatusCodes \cup {0} :
             IF CallFails(url, st, 201)
             THEN RemoteFails("POST", url, <<>>, 201, <<"Unable to create a project on OSF.">>,
                              buf, st)
                  /\ UNCHANGED osf_locals
             ELSE \/ /\ http' = Append(http, Request("POST", url, <<>>, 201, st))
                     /\ SdRaise(BadBody, LogRequest(buf, Response(url, st), 201))
                     /\ UNCHANGED osf_locals
                  \/ \E id \in NodeIds :
                          /\ http' = Append(http, Answered(Request("POST", url, <<>>, 201, st), id))
                          /\ node_id' = id
                          /\ _logs' = LogRequest(buf, Response(url, st), 201)
                          /\ pc' = "get_storage"
                          /\ UNCHANGED <<exc, sd_exit, sd_exc, sd_logs, pf_path, preprint_id,
                                         contrib_i>>
    /\ UNCHANGED <<config, osf_form, self_paper, self_user, payload, result, returned,
                   callbacks, oai_calls, oai_returned, attempts>>

\* Lines 359-365 and get_newnode_osf_storage (158-168): GET the node's files,
\* expect 200, read the upload link.
GetStorage ==
    /\ pc = "get_storage"
    /\ LET buf == Log(_logs, <<"### Creating a new depository">>)
           url == api_url \o <<"v2/nodes/">> \o node_id \o <<"/files/">>
       IN  \E st \in StatusCodes \cup {0} :
             IF CallFails(url, st, 200)
             THEN RemoteFails("GET", url, <<>>, 200, <<"Unable to authenticate to OSF.">>, buf, st)
             ELSE /\ http' = Append(http, Request("GET", url, <<>>, 200, st))
                  /\ \/ SdRaise(BadBody, LogRequest(buf, Response(url, st), 200))
                     \/ /\ _logs' = LogRequest(buf, Response(url, st), 200)
                        /\ pc' = "upload"
                        /\ UNCHANGED <<exc, sd_exit, sd_exc, sd_logs>>
    /\ UNCHANGED <<config, osf_form, self_paper, self_user, osf_locals, payload, result, returned,
                   callbacks, oai_calls, oai_returned, attempts>>

\* Lines 367-378: open the PDF, PUT it to the upload link, expect 201, keep
\* the path without its first character.
UploadPdf ==
    /\ pc = "upload"
    /\ LET buf == Log(_logs, <<"### Uploading the PDF">>)
       IN  \/ \* open(pdf, 'r') fails
              /\ SdRaise(IOError, buf)
              /\ UNCHANGED <<http, osf_locals>>
           \/ \E link \in UploadLinks, st \in StatusCodes \cup {0} :
                LET url == link \o <<"?kind=file&name=article.pdf">>
                IN  IF CallFails(url, st, 201)
                    THEN RemoteFails("PUT", url, <<"pdf">>, 201,
                                     <<"Unable to upload the PDF file.">>, buf, st)
                         /\ UNCHANGED osf_locals
                    ELSE \/ /\ http' = Append(http, Request("PUT", url, <<"pdf">>, 201, st))
                            /\ SdRaise(BadBody, LogRequest(buf, Response(url, st), 201))
                            /\ UNCHANGED osf_locals
                         \/ \E path \in FilePaths :
                                 /\ http' = Append(http,
                                        Answered(Request("PUT", url, <<"pdf">>, 201, st), path))
                                 /\ pf_path' = WithoutFirst(path)
                                 /\ contrib_i' = 0
                                 /\ _logs' = LogRequest(buf, Response(url, st), 201)
                                 /\ pc' = AfterContributor(0)
                                 /\ UNCHANGED <<exc, sd_exit, sd_exc, sd_logs, node_id,
                                                preprint_id>>
    /\ UNCHANGED <<config, osf_form, self_paper, self_user, payload, result, returned,
                   callbacks, oai_calls, oai_returned, attempts>>

\* add_contributors (lines 170-182), one turn of its loop: POST the next
\* author, expect 201.
AddContributor ==
    /\ pc = "contributors"
    /\ LET url == api_url \o <<"v2/nodes/">> \o node_id \o <<"/contributors/">>
           body == translate_author(paper.authors[contrib_i + 1])
       IN  \E st \in StatusCodes \cup {0} :
             IF CallFails(url, st, 201)
             THEN RemoteFails("POST", url, body, 201, <<"Unable to add contributors.">>,
                              _logs, st)
                  /\ UNCHANGED osf_locals
             ELSE /\ http' = Append(http, Request("POST", url, body, 201, st))
                  /\ _logs' = LogRequest(_logs, Response(url, st), 201)
                  /\ contrib_i' = contrib_i + 1
                  /\ pc' = AfterContributor(contrib_i + 1)
                  /\ UNCHANGED <<exc, sd_exit, sd_exc, sd_logs, node_id, pf_path, preprint_id>>
    /\ UNCHANGED <<config, osf_form, self_paper, self_user, payload, result, returned,
                   callbacks, oai_calls, oai_returned, attempts>>

\* create_license (lines 184-231): PATCH the node, expect 200.
CreateLicense ==
    /\ pc = "license"
    /\ LET url == api_url \o <<"v2/nodes/">> \o node_id \o <<"/">>
       IN  \E st \in StatusCodes \cup {0} :
             IF CallFails(url, st, 200)
             THEN RemoteFails("PATCH", url, license_structure, 200, <<"Unable to update license.">>,
                              _logs, st)
             ELSE /\ http' = Append(http, Request("PATCH", url, license_structure, 200, st))
                  /\ _logs' = Log(Log(Log(Log(Log(Log(LogRequest(_logs, Response(url, st), 200),
                                <<"### Updating License">>), FormatD(st)), ResponseText),
                                <<"==========">>),
                                <<"self.license_id: ">> \o license_id \o <<"  | ">>
                                    \o <<"self.no_license_id: ">> \o no_license_id),
                                <<"==========">>)
                  /\ pc' = "preprint"
                  /\ UNCHANGED <<exc, sd_exit, sd_exc, sd_logs>>
    /\ UNCHANGED <<config, osf_form, self_paper, self_user, osf_locals, payload, result, returned,
                   callbacks, oai_calls, oai_returned, attempts>>

\* create_preprint (lines 233-283) and line 386: POST v2/preprints/, expect
\* 201, keep the preprint id.
CreatePreprint ==
    /\ pc = "preprint"
    /\ LET buf == Log(_logs, <<"### Creating Preprint">>)
           url == api_url \o <<"v2/preprints/">>
       IN  \E st \in StatusCodes \cup {0} :
             IF CallFails(url, st, 201)
             THEN RemoteFails("POST", url, min_preprint_structure, 201,
                              <<"Unable to create the preprint.">>,
                              buf, st)
                  /\ UNCHANGED osf_locals
             ELSE \/ /\ http' = Append(http,
                                       Request("POST", url, min_preprint_structure, 201, st))
                     /\ SdRaise(BadBody, Log(LogRequest(buf, Response(url, st), 201), FormatD(st)))
                     /\ UNCHANGED osf_locals
                  \/ \E id \in PreprintIds :
                          /\ http' = Append(http,
                                 Answered(Request("POST", url, min_preprint_structure, 201, st), id))
                          /\ preprint_id' = id
                          /\ _logs' = Log(LogRequest(buf, Response(url, st), 201), FormatD(st))
                          /\ pc' = "preprint_license"
                          /\ UNCHANGED <<exc, sd_exit, sd_exc, sd_logs, node_id, pf_path,
                                         contrib_i>>
    /\ UNCHANGED <<config, osf_form, self_paper, self_user, payload, result, returned,
                   callbacks, oai_calls, oai_returned, attempts>>

\* update_preprint_license (lines 285-329) and lines 397-411: PATCH the
\* preprint, expect 200, log the public URLs, return deposit_result.
UpdatePreprintLicense ==
    /\ pc = "preprint_license"
    /\ LET buf == Log(_logs, <<"### Updating the Preprint License">>)
           url == api_url \o <<"v2/preprints/">> \o preprint_id \o <<"/">>
       IN  \E st \in StatusCodes \cup {0} :
             IF CallFails(url, st, 200)
             THEN RemoteFails("PATCH", url, updated_preprint_struc, 200,
                              <<"Unable to update the Preprint License.">>, buf, st)
                  /\ UNCHANGED result
             ELSE /\ http' = Append(http, Request("PATCH", url, updated_preprint_struc, 200, st))
                  /\ SdReturn(result,
                        Log(Log(Log(Log(Log(Log(LogRequest(buf, Response(url, st), 200), FormatD(st)),
                            ResponseText), <<"### FINAL DEBUG">>),
                            project_public_url(node_id)), preprint_public_url(preprint_id)),
                            preprint_public_pdf(preprint_id)))
    /\ UNCHANGED <<config, osf_form, self_paper, self_user, osf_locals, payload, returned,
                   callbacks, oai_calls, oai_returned, attempts>>

OsfSubmitDeposit ==
    \/ OsfStart
    \/ CreateNode
    \/ GetStorage
    \/ UploadPdf
    \/ AddContributor
    \/ CreateLicense
    \/ CreatePreprint
    \/ UpdatePreprintLicense

\* ------------------------------------------- submit_deposit_wrapper, the rest
\* Exceptions a collaborator of the wrapper (paper.add_oairecord, the
\* notification callback) can raise.
CollaboratorErrors ==
    {[type |-> <<"<class 'django.db.utils.IntegrityError'>">>, msg |-> <<"duplicate key">>]}

\* What paper.add_oairecord can return: the stored record.
OaiRecords == {<<"OaiRecord#1">>, <<"OaiRecord#2">>}

\* A test written as `result.splash_url is not None`: an empty URL attaches.
HasSplashNotNone(r) == r.splash_url # None

\* Line 162: `if result.splash_url:`
HasSplash(r) == Truthy(r.splash_url)

\* Lines 165-166: 'deposition:%d:%s' % (self.repository.id, unicode(result.identifier))
OaiIdentifier(repo_id, identifier) ==
    <<"deposition:">> \o FormatD(repo_id) \o <<":">> \o unicode(identifier)

\* Lines 163-168: the BareOaiRecord built from the result.
BareOaiRecord(r) ==
    [source |-> <<"oaisource">>, identifier |-> OaiIdentifier(repository.id, r.identifier),
     splash_url |-> r.splash_url, pdf_url |-> r.pdf_url]

\* Lines 159-169: the log goes into the result; a result with a splash URL
\* gets its OAI record from paper.add_oairecord.
WrapperAttach ==
    /\ pc = "attach"
    /\ LET r == [result EXCEPT !.logs = _logs]
       IN  IF HasSplash(r)
           THEN /\ oai_calls' = Append(oai_calls, BareOaiRecord(r))
                /\ \/ \E rec \in OaiRecords :
                        /\ result' = [r EXCEPT !.oairecord = rec]
                        /\ oai_returned' = rec
                        /\ pc' = "notify"
                        /\ exc' = exc
                   \/ \E e \in CollaboratorErrors :
                        /\ result' = r
                        /\ oai_returned' = oai_returned
                        /\ pc' = "raised"
                        /\ exc' = e
           ELSE /\ result' = r
                /\ pc' = "notify"
                /\ UNCHANGED <<oai_calls, oai_returned, exc>>
    /\ UNCHANGED <<config, osf_form, self_paper, self_user, _logs, osf_locals, payload, returned,
                   http, callbacks, sd_exit, sd_exc, sd_logs, attempts>>

\* Lines 171-173: the notification, then `return result`.
WrapperNotify ==
    /\ pc = "notify"
    /\ callbacks' = Append(callbacks, payload)
    /\ \/ /\ returned' = result
          /\ pc' = "returned"
          /\ exc' = exc
       \/ \E e \in CollaboratorErrors :
          /\ returned' = returned
          /\ pc' = "raised"
          /\ exc' = e
    /\ UNCHANGED <<config, osf_form, self_paper, self_user, _logs, osf_locals, payload, result,
                   http, oai_calls, oai_returned, sd_exit, sd_exc, sd_logs, attempts>>

\* Line 175: self.log('Message: ' + e.args[0])
MessageLog(buf, e) == Log(buf, <<"Message: ">> \o e.msg)

\* Line 176: notification_payload['paperurl'] += ' ' + e.args[0]
FailurePayload(p, e) == [p EXCEPT !.paperurl = @ \o <<" ">> \o e.msg]

\* A failed result that carries the generic message instead of the error's.
FailedResultGenericMessage(buf, e) ==
    DepositResult(None, None, None, buf, "failed", GENERIC_MESSAGE)

\* A failed deposit reported with a status other than 'failed'.
FailedResultPending(buf, e) == DepositResult(None, None, None, buf, "pending", e.msg)

\* Line 178: the result of a deposit that raised DepositError.
FailedResult(buf, e) == DepositResult(None, None, None, buf, "failed", e.msg)

\* Lines 174-178: `except DepositError as e`.  An exception of the callback
\* is raised inside the except clause, so no other clause catches it.
CatchDepositError ==
    /\ pc = "raised" /\ IsDepositError(exc)
    /\ _logs' = MessageLog(_logs, exc)
    /\ payload' = FailurePayload(payload, exc)
    /\ callbacks' = Append(callbacks, FailurePayload(payload, exc))
    /\ \/ /\ returned' = FailedResult(MessageLog(_logs, exc), exc)
          /\ pc' = "returned"
          /\ exc' = NoException
       \/ \E e \in CollaboratorErrors :
          /\ returned' = returned
          /\ pc' = "escaped"
          /\ exc' = e
    /\ UNCHANGED <<config, osf_form, self_paper, self_user, osf_locals, result,
                   http, oai_calls, oai_returned, sd_exit, sd_exc, sd_logs, attempts>>

\* traceback.format_exc(): the frames, then the exception's class and text.
format_exc(e) ==
    <<"Traceback (most recent call last):", "\n", "  File ...", "\n">> \o e.type \o <<": ">>
        \o e.msg \o <<"\n">>

\* Lines 180-182: what the last except clause logs.
CaughtLog(buf, e) ==
    Log(Log(Log(buf, <<"Caught exception:">>), e.type \o <<": ">> \o e.msg), format_exc(e))

\* A generic failure that shows the exception's own text to the user.
GenericFailedResultLeaks(buf, e) == DepositResult(None, None, None, buf, "failed", e.msg)

\* Line 183: the result of a deposit that raised anything else.
GenericFailedResult(buf, e) == DepositResult(None, None, None, buf, "failed", GENERIC_MESSAGE)

\* Lines 179-183: `except Exception as e`; the callback is not called here.
CatchException ==
    /\ pc = "raised" /\ ~IsDepositError(exc)
    /\ _logs' = CaughtLog(_logs, exc)
    /\ returned' = GenericFailedResult(CaughtLog(_logs, exc), exc)
    /\ pc' = "returned"
    /\ exc' = NoException
    /\ UNCHANGED <<config, osf_form, self_paper, self_user, osf_locals, payload, result,
                   http, callbacks, oai_calls, oai_returned, sd_exit, sd_exc, sd_logs, attempts>>

submit_deposit_wrapper ==
    \/ WrapperEnter
    \/ BaseSubmitDeposit
    \/ StubSubmitDeposit
    \/ OsfSubmitDeposit
    \/ WrapperAttach
    \/ WrapperNotify
    \/ CatchDepositError
    \/ CatchException

Next == InitDeposit \/ submit_deposit_wrapper

Spec == Init /\ [][Next]_vars

\* ------------------------------------------- single-function specifications
\* The protocol variables of a specification that only calls one function.
protocol_vars ==
    <<backend, repository, paper, user, self_paper, self_user, _logs, node_id, pf_path,
      preprint_id, contrib_i, license_id, pub_date, records, pc, exc, payload, result, returned, http, callbacks,
      oai_calls, oai_returned, sd_exit, sd_exc, sd_logs, attempts>>

\* An instance that nothing is called on, whatever its log buffer.
ParkedButLogs ==
    /\ backend = "Base"
    /\ repository = [endpoint |-> ProductionApi, api_key |-> <<"tok">>, id |-> 1,
                     name |-> <<"OSF">>]
    /\ paper = [pk |-> 7, authors |-> <<>>, date |-> PaperDate]
    /\ user = "u1"
    /\ self_paper = "None" /\ self_user = "None"
    /\ node_id = None /\ pf_path = None /\ preprint_id = None /\ contrib_i = 0
    /\ license_id = None /\ pub_date = None /\ records = <<>>
    /\ pc = "parked"
    /\ exc = NoException /\ payload = NoPayload
    /\ result = NoResult /\ returned = NoResult
    /\ http = <<>> /\ callbacks = <<>> /\ oai_calls = <<>> /\ oai_returned = None
    /\ sd_exit = "" /\ sd_exc = NoException /\ sd_logs = None
    /\ attempts = 0

\* A freshly constructed instance that nothing is called on.
Parked == ParkedButLogs /\ _logs = None

\* The parts of the protocol state no single function below touches.
parked_vars ==
    <<backend, repository, paper, user, self_paper, self_user, node_id, pf_path,
      preprint_id, contrib_i, license_id, pub_date, records, pc, exc, payload, result,
      returned, http, callbacks, oai_calls, oai_returned, sd_exit, sd_exc, sd_logs,
      attempts>>

\* ---- DepositResult.__init__
\* deposit.models.DEPOSIT_STATUS_CHOICES: (value, label) pairs.
DEPOSIT_STATUS_CHOICES ==
    {<<"pending", "Pending publication">>, <<"published", "Published">>,
     <<"failed", "Failed">>}

\* A check against the labels instead of the values.
InvalidStatusByLabel(status) == status \notin {c[2] : c \in DEPOSIT_STATUS_CHOICES}

\* Line 54: `status not in [x for x,y in DEPOSIT_STATUS_CHOICES]`
InvalidStatus(status) == status \notin {c[1] : c \in DEPOSIT_STATUS_CHOICES}

\* Statuses a caller may pass.
StatusInputs == {"pending", "published", "failed", "Published", "FAILED", "deleted", "", "None"}

NotCalled == [called |-> FALSE, raised |-> FALSE, exc |-> NoException, obj |-> NoResult]

\* DepositResult.__init__ (lines 48-59) for any status: the object, or ValueError.
NewDepositResult(a) ==
    IF InvalidStatus(a.status)
    THEN [called |-> TRUE, raised |-> TRUE,
          exc |-> [type |-> <<"<type 'exceptions.ValueError'>">>,
                   msg |-> <<"invalid status ", a.status>>],
          obj |-> NoResult]
    ELSE [called |-> TRUE, raised |-> FALSE, exc |-> NoException,
          obj |-> DepositResult(a.identifier, a.splash_url, a.pdf_url, a.logs, a.status,
                                a.message)]

InitDepositResult ==
    /\ Parked
    /\ fn = "DepositResult"
    /\ arg \in [identifier : {None, <<"id42">>}, splash_url : {None, <<>>, <<"https://repo/42">>},
                 pdf_url : {None, <<"https://repo/42.pdf">>}, logs : {None, <<"line", "\n">>},
                 status : StatusInputs, message : {None, <<"X">>}]
    /\ out = NotCalled

ConstructDepositResult ==
    /\ fn = "DepositResult" /\ ~out.called
    /\ out' = NewDepositResult(arg)
    /\ UNCHANGED <<protocol_vars, fn, arg>>

SpecDepositResult == InitDepositResult /\ [][ConstructDepositResult]_vars

\* ---- RepositoryProtocol.log_request
\* Buffers log_request may find, responses it may be given.
LogBuffers == {<<>>, <<"### Creating a new depository", "\n">>}
Responses ==
    [url : {SandboxApi \o <<"v2/nodes/">>, <<"https://files.osf.io/v1/n1?kind=file">>},
     status_code : StatusCodes, text : {<<>>, ResponseText}]

InitLogRequest ==
    /\ ParkedButLogs
    /\ _logs \in LogBuffers
    /\ fn = "log_request"
    /\ \E r \in Responses, e \in {200, 201}, m \in StubMessages \cup {<<"Unable to update license.">>} :
         arg = [buf |-> _logs, r |-> r, expected_status_code |-> e, error_msg |-> m]
    /\ out = NotCalled

\* log_request (lines 191-202) called once.
CallLogRequest ==
    /\ fn = "log_request" /\ ~out.called
    /\ _logs' = LogRequest(_logs, arg.r, arg.expected_status_code)
    /\ out' = IF LogRequestRaises(arg.r, arg.expected_status_code)
              THEN [called |-> TRUE, raised |-> TRUE, exc |-> DepositError(arg.error_msg),
                    obj |-> NoResult]
              ELSE [called |-> TRUE, raised |-> FALSE, exc |-> NoException, obj |-> NoResult]
    /\ UNCHANGED <<parked_vars, fn, arg>>

SpecLogRequest == InitLogRequest /\ [][CallLogRequest]_vars

\* ---- OSFProtocol.init_deposit
\* An OSF instance before init_deposit is called on it: fresh, or left by an
\* earlier attempt.  arg.on_osf tells whether the paper is already on OSF.
InitOsfInitDeposit ==
    /\ backend = "OSF"
    /\ repository \in [endpoint : Endpoints, api_key : ApiKeys, id : {1}, name : {<<"OSF">>}]
    /\ \E n \in 0..MaxAuthors :
         paper = [pk |-> 7, authors |-> SubSeq(Authors, 1, n), date |-> PaperDate]
    /\ user \in UserIds
    /\ \/ self_paper = "None" /\ self_user = "None" /\ _logs = None
       \/ self_paper = "paper" /\ self_user \in UserIds /\ _logs \in LogBuffers
    /\ node_id = None /\ pf_path = None /\ preprint_id = None /\ contrib_i = 0
    /\ license_id = None /\ pub_date = None /\ records = <<>>
    /\ pc = "parked"
    /\ exc = NoException /\ payload = NoPayload
    /\ result = NoResult /\ returned = NoResult
    /\ http = <<>> /\ callbacks = <<>> /\ oai_calls = <<>> /\ oai_returned = None
    /\ sd_exit = "" /\ sd_exc = NoException /\ sd_logs = None
    /\ attempts = 0
    /\ fn = "init_deposit"
    /\ arg \in [on_osf : BOOLEAN]
    /\ out = NotCalled

\* OSFProtocol.init_deposit (lines 52-57): RepositoryProtocol.init_deposit
\* (lines 89-92), then `return (True)`.
OsfInitDeposit ==
    /\ fn = "init_deposit" /\ ~out.called
    /\ self_paper' = "paper"
    /\ self_user' = user
    /\ _logs' = <<>>
    /\ out' = [called |-> TRUE, raised |-> FALSE, exc |-> NoException, obj |-> TRUE]
    /\ UNCHANGED <<config_but_out, osf_form, osf_locals, pc, exc, payload, result, returned,
                   history, attempts>>

SpecOsfInitDeposit == InitOsfInitDeposit /\ [][OsfInitDeposit]_vars

\* ---- OSFProtocol.create_tags
\* form.cleaned_data['tags'], character by character: every string of at most
\* MaxTagLen characters of TagAlphabet, and one longer string.
Whitespace == {" ", "\t"}
TagAlphabet == {"a", ","} \cup Whitespace
LongTags == <<"a", ",", " ", "b", " ", ",", ",", " ", "c">>
TagStrings == UNION {[1..n -> TagAlphabet] : n \in 0..MaxTagLen} \cup {LongTags}

\* str.split(','): the pieces between the commas; one piece when there is none.
RECURSIVE Split(_)
Split(s) ==
    LET commas == {i \in 1..Len(s) : s[i] = ","}
    IN  IF commas = {} THEN <<s>>
        ELSE LET i == CHOOSE c \in commas : \A d \in commas : c <= d
             IN  <<SubSeq(s, 1, i - 1)>> \o Split(SubSeq(s, i + 1, Len(s)))

\* A strip that leaves the piece as it is.
NoStrip(s) == s

\* str.strip(): without the whitespace at both ends.
RECURSIVE Strip(_)
Strip(s) ==
    IF s = <<>> THEN s
    ELSE IF s[1] \in Whitespace THEN Strip(Tail(s))
    ELSE IF s[Len(s)] \in Whitespace THEN Strip(SubSeq(s, 1, Len(s) - 1))
    ELSE s

NotEmpty(item) == item # <<>>

\* create_tags (lines 75-80).
create_tags(tags_field) ==
    LET tags == Split(tags_field)
        stripped == [i \in 1..Len(tags) |-> Strip(tags[i])]
    IN  SelectSeq(stripped, NotEmpty)

InitCreateTags ==
    /\ Parked
    /\ fn = "create_tags"
    /\ arg \in [tags : TagStrings]
    /\ out = NotCalled

CallCreateTags ==
    /\ fn = "create_tags" /\ ~out.called
    /\ out' = [called |-> TRUE, raised |-> FALSE, exc |-> NoException,
               obj |-> create_tags(arg.tags)]
    /\ UNCHANGED <<protocol_vars, fn, arg>>

SpecCreateTags == InitCreateTags /\ [][CallCreateTags]_vars

\* ---- two protocol instances
\* Attributes that live on the class, and so are one value for all instances.
\* The code has none: every attribute it writes is written through self
\* after __init__ (lines 70-73, osf lines 45-50) created it on the instance.
LogsOnClass == {"_logs"}

SharedAttributes == {}

\* What a running attempt finds in an attribute: the value on its own
\* instance, or the one of the class.
Attribute(name, own, on_class) == IF name \in SharedAttributes THEN on_class ELSE own

\* The instance and the call running on it, as the variables hold them.
Running ==
    [backend |-> backend, repository |-> repository, paper |-> paper, user |-> user,
     self_paper |-> self_paper, self_user |-> self_user, _logs |-> _logs,
     node_id |-> node_id, pf_path |-> pf_path, preprint_id |-> preprint_id,
     contrib_i |-> contrib_i, license_id |-> license_id, pub_date |-> pub_date,
     records |-> records, pc |-> pc, exc |-> exc, payload |-> payload, result |-> result,
     returned |-> returned, http |-> http, callbacks |-> callbacks,
     oai_calls |-> oai_calls, oai_returned |-> oai_returned, sd_exit |-> sd_exit,
     sd_exc |-> sd_exc, sd_logs |-> sd_logs, attempts |-> attempts]

\* A freshly constructed instance of a backend for a repository.
Fresh(b, endpoint, n, u) ==
    [backend |-> b,
     repository |-> [endpoint |-> endpoint, api_key |-> <<"tok">>, id |-> 1,
                     name |-> <<"OSF">>],
     paper |-> [pk |-> 7, authors |-> SubSeq(Authors, 1, n), date |-> PaperDate],
     user |-> u, self_paper |-> "None", self_user |-> "None", _logs |-> None,
     node_id |-> None, pf_path |-> None, preprint_id |-> None, contrib_i |-> 0,
     license_id |-> None, pub_date |-> None, records |-> <<>>, pc |-> "idle",
     exc |-> NoException, payload |-> NoPayload, result |-> NoResult,
     returned |-> NoResult, http |-> <<>>, callbacks |-> <<>>, oai_calls |-> <<>>,
     oai_returned |-> None, sd_exit |-> "", sd_exc |-> NoException, sd_logs |-> None,
     attempts |-> 0]

\* Two instances: the first in the variables, the second waiting in arg.
InitTwo ==
    /\ \E b \in {"OSF", "Base"} :
         LET f == IF b = "OSF" THEN Fresh(b, SandboxApi, 1, "u1")
                  ELSE Fresh(b, ProductionApi, 0, "u1")
         IN
             /\ backend = f.backend /\ repository = f.repository /\ paper = f.paper
             /\ user = f.user /\ self_paper = f.self_paper /\ self_user = f.self_user
             /\ _logs = f._logs /\ node_id = f.node_id /\ pf_path = f.pf_path
             /\ preprint_id = f.preprint_id /\ contrib_i = f.contrib_i
             /\ license_id = f.license_id /\ pub_date = f.pub_date
             /\ records = f.records /\ pc = f.pc /\ exc = f.exc /\ payload = f.payload
             /\ result = f.result /\ returned = f.returned /\ http = f.http
             /\ callbacks = f.callbacks /\ oai_calls = f.oai_calls
             /\ oai_returned = f.oai_returned /\ sd_exit = f.sd_exit
             /\ sd_exc = f.sd_exc /\ sd_logs = f.sd_logs /\ attempts = f.attempts
    /\ fn = "two"
    /\ \E b \in {"OSF", "Stub"} : arg = [cur |-> 1, waiting |-> Fresh(b, ProductionApi, 0, "u2")]
    /\ out = NotCalled

\* The interpreter leaves the running call where it is and resumes the
\* waiting one.
Switch ==
    /\ fn = "two"
    /\ arg' = [cur |-> 3 - arg.cur, waiting |-> Running]
    /\ backend' = arg.waiting.backend
    /\ repository' = Attribute("repository", arg.waiting.repository, repository)
    /\ paper' = arg.waiting.paper
    /\ user' = arg.waiting.user
    /\ self_paper' = Attribute("paper", arg.waiting.self_paper, self_paper)
    /\ self_user' = Attribute("user", arg.waiting.self_user, self_user)
    /\ _logs' = Attribute("_logs", arg.waiting._logs, _logs)
    /\ node_id' = Attribute("node_id", arg.waiting.node_id, node_id)
    /\ license_id' = Attribute("license_id", arg.waiting.license_id, license_id)
    /\ pub_date' = Attribute("pub_date", arg.waiting.pub_date, pub_date)
    /\ pf_path' = arg.waiting.pf_path
    /\ preprint_id' = arg.waiting.preprint_id
    /\ contrib_i' = arg.waiting.contrib_i
    /\ records' = arg.waiting.records
    /\ pc' = arg.waiting.pc
    /\ exc' = arg.waiting.exc
    /\ payload' = arg.waiting.payload
    /\ result' = arg.waiting.result
    /\ returned' = arg.waiting.returned
    /\ http' = arg.waiting.http
    /\ callbacks' = arg.waiting.callbacks
    /\ oai_calls' = arg.waiting.oai_calls
    /\ oai_returned' = arg.waiting.oai_returned
    /\ sd_exit' = arg.waiting.sd_exit
    /\ sd_exc' = arg.waiting.sd_exc
    /\ sd_logs' = arg.waiting.sd_logs
    /\ attempts' = arg.waiting.attempts
    /\ UNCHANGED <<fn, out>>

\* The inputs of the two attempts: one attempt on each instance.
TwoInputs ==
    /\ attempts <= 1
    /\ license_id \in {None, SandboxNoLicense}
    /\ records \in {<<>>, <<None, <<"10.1/a">>>>}
    /\ node_id \in {None, IF arg.cur = 1 THEN <<"nd1">> ELSE <<"nd2">>}
    /\ preprint_id \in {None, IF arg.cur = 1 THEN <<"pp1">> ELSE <<"pp2">>}

NextTwo == (Next /\ TwoInputs') \/ Switch

SpecTwo == InitTwo /\ [][NextTwo]_vars

\* ------------------------------------------------------------------ claims
\* The wrapper call has ended, by a return or by an exception leaving it.
CallOver == pc \in {"returned", "escaped"}

\* The only exception that leaves the wrapper after submit_deposit ran: the
\* notification callback raising inside `except DepositError` (see C1).
CallbackEscaped ==
    pc = "escaped" /\ Len(callbacks) = 1 /\ exc \in CollaboratorErrors

\* C1: submit_deposit_wrapper never lets an exception escape: whatever
\* submit_deposit and the wrapper's collaborators do, and whether or not
\* init_deposit was called, the call ends by returning a DepositResult.
\* The code violates it: the payload is computed before the try block, and
\* the callback is called inside an except clause.
C1_NoExceptionEscapes == pc # "escaped"

C3_GenericFailure ==
    (CallOver /\ sd_exit = "raised" /\ ~IsDepositError(sd_exc)) =>
        /\ pc = "returned"
        /\ returned.status = "failed"
        /\ returned.message = <<"Failed to connect to the repository. Please try again later.">>
        /\ ~Contains(returned.message, sd_exc.msg)
        /\ IsPrefix(sd_logs, returned.logs)
        /\ Contains(returned.logs, sd_exc.type)
        /\ Contains(returned.logs, sd_exc.msg)

C3_Witness ==
    /\ pc = "returned" /\ backend = "OSF" /\ sd_exit = "raised"
    /\ sd_exc = ConnectionError
    /\ Len(http) = 2
    /\ returned.message = GENERIC_MESSAGE

\* C4: in every call of the wrapper, whatever the outcome, the notification
\* callback has been invoked exactly once when the wrapper returns.  The code
\* violates it: the last except clause returns without calling it.
C4_NotifiedExactlyOnce == pc = "returned" => Len(callbacks) = 1

\* C5: once the wrapper is past line 169 in a call where submit_deposit
\* returned a result: if its splash URL is non-empty, add_oairecord was called
\* exactly once, with a record whose identifier is
\* "deposition:<repository id>:<result identifier>" and whose URLs are the
\* result's, and the record it returned is result.oairecord; if the splash URL
\* is empty or None, add_oairecord was not called and result.oairecord is None.
C5_OaiRecordAttachedOnce ==
    (sd_exit = "returned" /\ pc \in {"notify", "raised", "returned", "escaped"}) =>
        IF result.splash_url # None /\ result.splash_url # <<>>
        THEN /\ Len(oai_calls) = 1
             /\ oai_calls[1].identifier =
                    <<"deposition:", IF repository.id = 1 THEN "1" ELSE "2", ":">>
                        \o (IF result.identifier = None THEN <<"None">> ELSE result.identifier)
             /\ oai_calls[1].splash_url = result.splash_url
             /\ oai_calls[1].pdf_url = result.pdf_url
             /\ result.oairecord = oai_returned
        ELSE /\ oai_calls = <<>>
             /\ result.oairecord = None

C5_Witness ==
    /\ pc = "returned" /\ sd_exit = "returned"
    /\ Len(oai_calls) = 1
    /\ oai_returned \in OaiRecords
    /\ returned.oairecord = oai_returned
    /\ result.identifier # None

\* C6: when every OSF remote call answered with its expected status, the
\* result OSFProtocol.submit_deposit returns has an identifier, a splash URL
\* ending in the preprint id and a PDF URL ending in "/download".  The code
\* violates it: lines 407-409, which would set the three fields, are
\* commented out.
C6_OsfResultPopulated ==
    (backend = "OSF" /\ sd_exit = "returned") =>
        /\ result.identifier # None
        /\ result.splash_url # None /\ IsSuffix(preprint_id, result.splash_url)
        /\ result.pdf_url # None /\ IsSuffix(<<"/download">>, result.pdf_url)

\* Which step of the OSF sequence a recorded remote call is.
Kind(req) ==
    CASE req.method = "POST" /\ req.url = api_url \o <<"v2/nodes/">> -> "nodes"
      [] req.method = "GET" /\ IsSuffix(<<"/files/">>, req.url) -> "files"
      [] req.method = "PUT" -> "upload"
      [] req.method = "POST" /\ IsSuffix(<<"/contributors/">>, req.url) -> "contributors"
      [] req.method = "PATCH" /\ IsPrefix(api_url \o <<"v2/nodes/">>, req.url) -> "node_license"
      [] req.method = "POST" /\ req.url = api_url \o <<"v2/preprints/">> -> "preprints"
      [] req.method = "PATCH" /\ IsPrefix(api_url \o <<"v2/preprints/">>, req.url)
            -> "preprint_license"
      [] OTHER -> "other"

\* The sequence the claims state, with the status each call must answer.
Plan ==
    <<[kind |-> "nodes", status |-> 201], [kind |-> "files", status |-> 200],
      [kind |-> "upload", status |-> 201]>>
    \o [i \in 1..Len(paper.authors) |-> [kind |-> "contributors", status |-> 201]]
    \o <<[kind |-> "node_license", status |-> 200], [kind |-> "preprints", status |-> 201],
         [kind |-> "preprint_license", status |-> 200]>>

\* C7: the remote calls of an attempt are a prefix of POST nodes, GET files,
\* PUT upload, POST contributors (one per author), PATCH node, POST preprints,
\* PATCH preprint, each checked against 201, 200, 201, 201, 200, 201, 200,
\* and every call but the last one issued answered with that status.
C7_RemoteCallOrder ==
    /\ Len(http) <= Len(Plan)
    /\ \A i \in 1..Len(http) :
         /\ Kind(http[i]) = Plan[i].kind
         /\ http[i].expected = Plan[i].status
         /\ i < Len(http) => http[i].status = Plan[i].status

C7_Witness ==
    /\ Len(paper.authors) = 2
    /\ Len(http) = 8
    /\ http[8].status = 200
    /\ pc = "attach"

ContributorFailed ==
    \E i \in 1..Len(http) : Kind(http[i]) = "contributors" /\ http[i].status # 201

CallFailed == \E i \in 1..Len(http) : http[i].status # http[i].expected

C11_StatusInEnumeration ==
    out.called =>
        /\ out.raised <=> arg.status \notin {"pending", "published", "failed"}
        /\ out.raised => out.obj = NoResult /\ out.exc.type = <<"<type 'exceptions.ValueError'>">>
        /\ ~out.raised =>
             /\ out.obj.status = arg.status
             /\ out.obj.status \in {"pending", "published", "failed"}
             /\ out.obj.identifier = arg.identifier
             /\ out.obj.logs = arg.logs
             /\ out.obj.message = arg.message
             /\ out.obj.oairecord = None

C11_Witness ==
    /\ out.called /\ out.raised /\ arg.status = "Published"

\* The license PATCHes of this attempt.
LicensePatches ==
    {i \in 1..Len(http) : Kind(http[i]) \in {"node_license", "preprint_license"}}

\* The "no license" id C12 names for the configured endpoint.
SentinelOf(endpoint) ==
    IF endpoint = <<"https://test-api.osf.io/">>
    THEN <<"58fd62fcda3e2400012ca5cc">> ELSE <<"563c1cf88c5e4a3877f9e965">>

\* C12: in the PATCH of the node (node_license) and the PATCH of the preprint
\* (license_record) the license block holds the publication year and the
\* authors' full names exactly when the license chosen in the form is the
\* "no license" id of the configured endpoint; for any other license the
\* block is empty; both PATCHes name the chosen license and make the same
\* choice.
C12_LicenseBlock ==
    /\ \A i \in LicensePatches :
         LET b == http[i].body
         IN  /\ b.license = license_id
             /\ b.block_name =
                  (IF Kind(http[i]) = "node_license" THEN "node_license" ELSE "license_record")
             /\ IF license_id = SentinelOf(repository.endpoint)
                THEN /\ b.block.keys = {"year", "copyright_holders"}
                     /\ b.block.year = SubSeq(paper.date, 1, 4)
                     /\ Len(b.block.copyright_holders) = Len(paper.authors)
                     /\ \A k \in 1..Len(paper.authors) :
                          b.block.copyright_holders[k]
                              = paper.authors[k].first \o <<" ">> \o paper.authors[k].last
                ELSE b.block.keys = {}
    /\ \A i, j \in LicensePatches : http[i].body.block = http[j].body.block

\* Both PATCHes sent with a filled block, on the sandbox, for two authors.
C12_Witness ==
    /\ pc = "returned" /\ returned.status = "published"
    /\ repository.endpoint = SandboxApi
    /\ license_id = <<"58fd62fcda3e2400012ca5cc">>
    /\ Len(paper.authors) = 2
    /\ \E i, j \in LicensePatches :
         /\ Kind(http[i]) = "node_license" /\ Kind(http[j]) = "preprint_license"
         /\ http[i].body.block.keys # {} /\ http[j].body.block.keys # {}

\* The error message of the step a remote call belongs to.
StepMessage(kind) ==
    CASE kind = "nodes" -> <<"Unable to create a project on OSF.">>
      [] kind = "files" -> <<"Unable to authenticate to OSF.">>
      [] kind = "upload" -> <<"Unable to upload the PDF file.">>
      [] kind = "contributors" -> <<"Unable to add contributors.">>
      [] kind = "node_license" -> <<"Unable to update license.">>
      [] kind = "preprints" -> <<"Unable to create the preprint.">>
      [] kind = "preprint_license" -> <<"Unable to update the Preprint License.">>
      [] OTHER -> <<>>

\* C13: every failed remote call of an OSF attempt, a wrong status code or a
\* network error raised by the HTTP call, reaches the wrapper as a
\* DepositError, and the result the wrapper returns is failed with the
\* message of the failing step.  The code violates it: an exception raised
\* by requests is no DepositError, so the wrapper answers with the generic
\* message.
C13_FailuresAreDepositErrors ==
    (CallFailed /\ sd_exit # "")
        => /\ sd_exit = "raised" /\ IsDepositError(sd_exc)
           /\ pc = "returned" =>
                /\ returned.status = "failed"
                /\ returned.message = StepMessage(Kind(http[Len(http)]))

\* The two lines log_request writes for every response.
RequestLines(r, expected) ==
    <<"--- Request to ">> \o r.url \o <<"\n", "\n">>
    \o <<"Status code: ">> \o FormatD(r.status_code) \o <<" (expected ">>
    \o FormatD(expected) \o <<")", "\n", "\n">>

\* C14: log_request always appends the URL of the request and the actual and
\* expected status codes to the log; it raises DepositError(error_msg) exactly
\* when the two codes differ, after appending the body of the response; when
\* they are equal it returns and appends nothing else.
C14_LogRequest ==
    (fn = "log_request" /\ out.called) =>
        LET head == arg.buf \o RequestLines(arg.r, arg.expected_status_code)
        IN  /\ IsPrefix(head, _logs)
            /\ out.raised <=> arg.r.status_code # arg.expected_status_code
            /\ out.raised =>
                 /\ out.exc = [type |-> DepositError(<<>>).type, msg |-> arg.error_msg]
                 /\ _logs = head \o <<"Server response:", "\n">> \o arg.r.text
                              \o <<"\n", "\n">>
            /\ ~out.raised => _logs = head /\ out.exc = NoException

\* A 200 answered where 201 was expected, with a body.
C14_Witness ==
    /\ fn = "log_request" /\ out.called /\ out.raised
    /\ arg.r.status_code = 200 /\ arg.expected_status_code = 201
    /\ arg.r.text = ResponseText /\ arg.buf # <<>>

\* The entry read in the answer of the first call of the given kind.
AnswerOf(kind) ==
    LET k == CHOOSE i \in 1..Len(http) : Kind(http[i]) = kind IN http[k].answer

\* The DOIs of the records that have one.
Dois == {<<"10.1/a">>, <<"10.1/b">>}

\* C15: the POST of the preprint names the node id the node-creation
\* response gave, as primary_file the path the upload response gave without
\* its leading separator, the provider "osf", and the DOI of the first record
\* that has a DOI (None when no record has one); the URLs of the files,
\* contributors and node-license calls are built on the same node id.
C15_PreprintThreadsIds ==
    /\ \A i \in 1..Len(http) :
         Kind(http[i]) = "preprints" =>
            LET b == http[i].body
                path == AnswerOf("upload")
                first == {k \in 1..Len(records) :
                            records[k] \in Dois /\ \A j \in 1..(k - 1) : records[j] \notin Dois}
            IN  /\ b.node = AnswerOf("nodes") /\ b.node \in NodeIds
                /\ path[1] = "/" /\ <<"/">> \o b.primary_file = path
                /\ b.provider = <<"osf">>
                /\ IF first = {} THEN b.doi = None
                   ELSE \A k \in first : b.doi = records[k]
    /\ \A i \in 1..Len(http) :
         LET base == repository.endpoint \o <<"v2/nodes/">> \o AnswerOf("nodes")
         IN  /\ Kind(http[i]) = "files" => http[i].url = base \o <<"/files/">>
             /\ Kind(http[i]) = "contributors" => http[i].url = base \o <<"/contributors/">>
             /\ Kind(http[i]) = "node_license" => http[i].url = base \o <<"/">>

\* A preprint posted for a paper whose second record is the first with a DOI.
C15_Witness ==
    /\ pc = "returned" /\ returned.status = "published"
    /\ records = <<None, <<"10.1/a">>>>
    /\ Len(paper.authors) = 1
    /\ \E i \in 1..Len(http) :
         /\ Kind(http[i]) = "preprints" /\ http[i].body.doi = <<"10.1/a">>
         /\ http[i].body.primary_file = <<"f1">>

\* The public prefix C16 names for the configured endpoint.
PublicPrefix(endpoint) ==
    IF endpoint = <<"https://test-api.osf.io/">>
    THEN <<"https://test.osf.io/">> ELSE <<"https://osf.io/">>

\* C16: the splash URL computed for a created preprint is "https://test.osf.io/"
\* followed by the preprint id on the sandbox endpoint and "https://osf.io/"
\* followed by the preprint id on any other, and the PDF URL is the splash
\* URL followed by "/download"; both are the last two lines that
\* submit_deposit logs.  The code violates it on every endpoint but the
\* sandbox: it joins "https://osf.io" and the id without a separator.
C16_PublicUrls ==
    (backend = "OSF" /\ sd_exit = "returned") =>
        LET splash == PublicPrefix(repository.endpoint) \o preprint_id
        IN  IsSuffix(<<"\n">> \o splash \o <<"\n">> \o splash \o <<"/download", "\n">>, sd_logs)

\* C17: OSFProtocol.init_deposit returns false when the paper is already on
\* OSF and true otherwise, and in both cases binds the paper and the user and
\* sets the log to the empty string.  The code violates it: it returns True
\* whatever the paper.
C17_OsfInitDepositRefuses ==
    (fn = "init_deposit" /\ out.called) =>
        /\ ~out.raised
        /\ out.obj = ~arg.on_osf
        /\ self_paper = "paper" /\ self_user = user /\ _logs = <<>>

\* C18: the log buffer is append-only during an attempt: init_deposit sets
\* it to the empty string; every later step up to the return of the wrapper
\* keeps the buffer it found as a prefix of the buffer it leaves, and what it
\* appends is made of lines that end with a newline; the logs of the result
\* the wrapper returns are the whole buffer at that moment, after a success,
\* a DepositError and any other exception.
C18_LogAppendOnly ==
    [][/\ attempts' # attempts => _logs' = <<>>
       /\ attempts' = attempts =>
            /\ _logs = None => _logs' = None
            /\ _logs # None =>
                 /\ IsPrefix(_logs, _logs')
                 /\ _logs' # _logs => _logs'[Len(_logs')] = "\n"
       /\ (pc # "returned" /\ pc' = "returned") => returned'.logs = _logs'
      ]_vars

\* A second attempt on the same instance that returned after a network
\* error, with the lines of the attempt and of the wrapper in the buffer.
C18_Witness ==
    /\ pc = "returned" /\ backend = "OSF" /\ attempts = 2
    /\ sd_exc = ConnectionError /\ Len(http) = 2
    /\ returned.logs = _logs /\ IsPrefix(sd_logs, _logs) /\ Len(_logs) > Len(sd_logs)

\* The pieces of s between commas, as pairs of positions: the piece runs from
\* lo + 1 to hi - 1, where lo and hi are neighbouring commas or the ends.
PieceBounds(s) ==
    LET marks == {0, Len(s) + 1} \cup {i \in 1..Len(s) : s[i] = ","}
    IN  {b \in marks \X marks :
            b[1] < b[2] /\ \A k \in marks : ~(b[1] < k /\ k < b[2])}

\* The positions of a piece that hold something else than whitespace.
Inked(s, b) == {i \in (b[1] + 1)..(b[2] - 1) : s[i] \notin {" ", "\t"}}

\* C20: create_tags returns the pieces between the commas of its input, in
\* their order, each without the whitespace around it, leaving out the
\* pieces that are empty once trimmed; "a, b ,, c" gives ["a", "b", "c"].
C20_CreateTags ==
    (fn = "create_tags" /\ out.called) =>
        LET s == arg.tags
            tags == out.obj
            kept == {b \in PieceBounds(s) : Inked(s, b) # {}}
            Rank(b) == Cardinality({c \in kept : c[1] <= b[1]})
        IN  /\ ~out.raised
            /\ Len(tags) = Cardinality(kept)
            /\ \A b \in kept :
                 LET lo == CHOOSE i \in Inked(s, b) : \A j \in Inked(s, b) : i <= j
                     hi == CHOOSE i \in Inked(s, b) : \A j \in Inked(s, b) : i >= j
                 IN  tags[Rank(b)] = SubSeq(s, lo, hi)
            /\ s = <<"a", ",", " ", "b", " ", ",", ",", " ", "c">>
                 => tags = << <<"a">>, <<"b">>, <<"c">> >>

\* The example of the claim, normalised.
C20_Witness ==
    /\ fn = "create_tags" /\ out.called
    /\ arg.tags = <<"a", ",", " ", "b", " ", ",", ",", " ", "c">>
    /\ Len(out.obj) = 3

\* The lines "--- Request to <url>" of a buffer, by the position of the URL.
LoggedRequests(buf) == {i \in 2..Len(buf) : buf[i - 1] = "--- Request to "}

\* The running attempt's buffer names the answered requests of this attempt
\* and no other: as many as were answered, each to this instance's endpoint
\* or to the upload link.
OwnRequestsLogged ==
    _logs # None =>
        /\ Cardinality(LoggedRequests(_logs))
             = Cardinality({i \in 1..Len(http) : http[i].status # 0})
        /\ \A i \in LoggedRequests(_logs) :
             \/ <<_logs[i]>> = repository.endpoint
             \/ <<_logs[i]>> \in UploadLinks

C21_SuccessStaysSuccess ==
    (pc = "returned" /\ sd_exit = "returned") =>
        /\ returned = result
        /\ returned.status # "failed"

\* C22: a result with status 'failed' returned by the wrapper means that
\* add_oairecord was not called in this attempt, and its identifier, splash
\* URL, PDF URL and OAI record are all None.  The code violates the first
\* part: the callback raising after add_oairecord stored the record ends in
\* the failed result of `except Exception`.
C22_FailedMeansNothingAttached ==
    (pc = "returned" /\ returned.status = "failed") =>
        /\ oai_calls = <<>>
        /\ returned.identifier = None /\ returned.splash_url = None
        /\ returned.pdf_url = None /\ returned.oairecord = None

====
